---- MODULE Spec2Model ----
(***************************************************************************)
(* Hash-chained decision ledger and the verify_chain walk of the four      *)
(* dashboard scripts (E1.py, E2.py, db.py, E3.py).                         *)
(*                                                                         *)
(* Text is modelled as a sequence of naturals (one natural per character). *)
(* A ledger record is a Python dict as json.loads builds it: a sequence of *)
(* <<key, value>> pairs in insertion order, with distinct keys.            *)
(* Positions are 1-based: position p here is the spec's position p-1.      *)
(***************************************************************************)
EXTENDS Integers, Sequences, FiniteSets, TLC

(* ------------------------------ bounds --------------------------------- *)
\* longest ledger the producer builds
MaxLen == 3

(* --------------------------- JSON values ------------------------------- *)
\* a JSON string / number: its characters
Str(s) == [kind |-> "str", str |-> s, map |-> <<>>]
\* a JSON object: its <<key, characters>> pairs in insertion order
Map(m) == [kind |-> "map", str |-> <<>>, map |-> m]

\* every key of a record, in the lexicographic order sort_keys=True emits
RecordKeys == <<"hash", "prev_hash", "top_shap_features", "user_id">>
\* every key of top_shap_features, in lexicographic order
FeatureKeys == <<"gaming_events", "searches">>

\* the character that stands for a key inside serialized text
KeyCode(k) ==
  CASE k = "hash" -> 11
    [] k = "prev_hash" -> 12
    [] k = "top_shap_features" -> 13
    [] k = "user_id" -> 14
    [] k = "gaming_events" -> 15
    [] k = "searches" -> 16

(* ----------------------------- dicts ----------------------------------- *)
HasKey(d, k) == \E j \in 1..Len(d) : d[j][1] = k
Get(d, k) == d[CHOOSE j \in 1..Len(d) : d[j][1] = k][2]
\* dict.pop(k) on a dict that has k
Pop(d, k) == SelectSeq(d, LAMBDA e : e[1] # k)
\* d[k] = v : replaces in place, or adds at the end
Put(d, k, v) ==
  IF HasKey(d, k)
    THEN [j \in 1..Len(d) |-> IF d[j][1] = k THEN <<k, v>> ELSE d[j]]
    ELSE Append(d, <<k, v>>)

RECURSIVE Flatten(_)
Flatten(ss) == IF ss = <<>> THEN <<>> ELSE Head(ss) \o Flatten(Tail(ss))

\* json.dumps without sort_keys: the pairs of d in insertion order
SortedItems_insertion_order(d, keys) == d

\* the pairs of d in the order of the sorted key list
SortedItems(d, keys) ==
  LET present == SelectSeq(keys, LAMBDA k : HasKey(d, k))
  IN [j \in 1..Len(present) |-> <<present[j], Get(d, present[j])>>]

\* a quoted JSON string: self-delimiting
DumpStr(s) == <<1, Len(s)>> \o s
\* a JSON object of scalars, keys sorted
DumpMap(m) ==
  LET items == SortedItems(m, FeatureKeys)
  IN <<2, Len(items)>> \o
     Flatten([j \in 1..Len(items) |->
                <<KeyCode(items[j][1])>> \o DumpStr(items[j][2])])
DumpValue(v) == IF v.kind = "map" THEN DumpMap(v.map) ELSE DumpStr(v.str)

\* json.dumps(rc, sort_keys=True, separators=(",", ":"))
json_dumps(rc) ==
  LET items == SortedItems(rc, RecordKeys)
  IN <<2, Len(items)>> \o
     Flatten([j \in 1..Len(items) |->
                <<KeyCode(items[j][1])>> \o DumpValue(items[j][2])])

(* ----------------------------- digest ---------------------------------- *)
\* "0" * 64
Genesis == <<0>>
\* hashlib.sha256(text).hexdigest(), as a collision-free digest: the text
\* behind a mark that no other text starts with
sha256(text) == <<9>> \o text
\* Digest(prev_hash, payload): the hash of the concatenation
Digest(prev_hash, payload) == sha256(prev_hash \o payload)


(* --------------------------- verify_chain ------------------------------ *)
\* How a walk ended. ret is what the call produces: "True" or "False" when it
\* returns, "KeyError" when it raises. at and check record where the loop was
\* when it stopped (the record, and the comparison "hash" or "link"); the
\* call does not return them.
Stop(ret, at, check) == [ret |-> ret, at |-> at, check |-> check]
\* How one pass of the loop body ended: "next" when it falls through to the
\* next record
Check(ret, check) == [ret |-> ret, check |-> check]

\* E3.py: the body of the for loop of verify_chain, for one record
E3_verify_chain_body(rec, prev_hash) ==
  IF ~HasKey(rec, "hash") THEN Check("KeyError", "hash")
  ELSE LET rc == Pop(rec, "hash")
           stored == Get(rec, "hash")
           payload == json_dumps(rc)
           calc == Str(Digest(prev_hash, payload))
       IN IF calc # stored THEN Check("False", "hash")
           ELSE Check("next", "none")

\* E3.py loop that keeps only the verdict on the last record: a mismatch is
\* remembered instead of returned, and overwritten by the next record
RECURSIVE E3_loop_last_verdict(_, _, _)
E3_loop_last_verdict(records, i, prev_hash) ==
  IF i > Len(records) THEN Stop("True", 0, "none")
  ELSE LET c == E3_verify_chain_body(records[i], prev_hash)
       IN IF i < Len(records) /\ c.ret \in {"next", "False"}
            THEN E3_loop_last_verdict(records, i + 1, Get(records[i], "hash").str)
            ELSE IF c.ret = "next" THEN Stop("True", 0, "none")
            ELSE Stop(c.ret, i, c.check)

\* E3.py: the for loop of verify_chain, at record i with the local prev_hash
RECURSIVE E3_verify_chain_loop(_, _, _)
E3_verify_chain_loop(records, i, prev_hash) ==
  IF i > Len(records) THEN Stop("True", 0, "none")
  ELSE LET c == E3_verify_chain_body(records[i], prev_hash)
       IN IF c.ret = "next"
            THEN E3_verify_chain_loop(records, i + 1, Get(records[i], "hash").str)
            ELSE Stop(c.ret, i, c.check)

\* E3.py: verify_chain(records)
E3_verify_chain(records) == E3_verify_chain_loop(records, 1, Genesis)

\* E1.py loop body without line 57: the stored prev_hash is never compared
E1_body_hash_only(rec, prev_hash) ==
  IF ~HasKey(rec, "hash") THEN Check("KeyError", "hash")
  ELSE IF Str(Digest(prev_hash, json_dumps(Pop(rec, "hash")))) # Get(rec, "hash")
    THEN Check("False", "hash")
  ELSE Check("next", "none")

\* E1.py loop body without line 56: the recomputed hash is never compared
E1_body_link_only(rec, prev_hash) ==
  IF ~HasKey(rec, "hash") THEN Check("KeyError", "hash")
  ELSE IF ~HasKey(rec, "prev_hash") THEN Check("KeyError", "link")
  ELSE IF Get(rec, "prev_hash") # Str(prev_hash) THEN Check("False", "link")
  ELSE Check("next", "none")

\* E1.py: the body of the for loop of verify_chain, for one record
E1_verify_chain_body(rec, prev_hash) ==
  IF ~HasKey(rec, "hash") THEN Check("KeyError", "hash")
  ELSE LET rc == Pop(rec, "hash")
           stored == Get(rec, "hash")
           payload == json_dumps(rc)
           calc == Str(Digest(prev_hash, payload))
       IN IF calc # stored THEN Check("False", "hash")
           ELSE IF ~HasKey(rc, "prev_hash") THEN Check("KeyError", "link")
           ELSE IF Get(rc, "prev_hash") # Str(prev_hash) THEN Check("False", "link")
           ELSE Check("next", "none")

\* E1.py loop with "return True" indented into the for loop
E1_loop_returns_after_first(records, i, prev_hash) ==
  IF i > Len(records) THEN Stop("True", 0, "none")
  ELSE LET c == E1_verify_chain_body(records[i], prev_hash)
       IN IF c.ret = "next" THEN Stop("True", 0, "none")
          ELSE Stop(c.ret, i, c.check)

\* E1.py: the for loop of verify_chain, at record i with the local prev_hash
RECURSIVE E1_verify_chain_loop(_, _, _)
E1_verify_chain_loop(records, i, prev_hash) ==
  IF i > Len(records) THEN Stop("True", 0, "none")
  ELSE LET c == E1_verify_chain_body(records[i], prev_hash)
       IN IF c.ret = "next"
            THEN E1_verify_chain_loop(records, i + 1, Get(records[i], "hash").str)
            ELSE Stop(c.ret, i, c.check)

\* E1.py: verify_chain(records)
E1_verify_chain(records) == E1_verify_chain_loop(records, 1, Genesis)

\* E2.py: the body of the for loop of verify_chain, for one record
E2_verify_chain_body(rec, prev_hash) ==
  IF ~HasKey(rec, "hash") THEN Check("KeyError", "hash")
  ELSE LET rc == Pop(rec, "hash")
           stored == Get(rec, "hash")
           payload == json_dumps(rc)
           calc == Str(Digest(prev_hash, payload))
       IN IF calc # stored THEN Check("False", "hash")
           ELSE IF ~HasKey(rc, "prev_hash") THEN Check("KeyError", "link")
           ELSE IF Get(rc, "prev_hash") # Str(prev_hash) THEN Check("False", "link")
           ELSE Check("next", "none")

\* E2.py loop with "return True" indented into the for loop
E2_loop_returns_after_first(records, i, prev_hash) ==
  IF i > Len(records) THEN Stop("True", 0, "none")
  ELSE LET c == E2_verify_chain_body(records[i], prev_hash)
       IN IF c.ret = "next" THEN Stop("True", 0, "none")
          ELSE Stop(c.ret, i, c.check)

\* E2.py: the for loop of verify_chain, at record i with the local prev_hash
RECURSIVE E2_verify_chain_loop(_, _, _)
E2_verify_chain_loop(records, i, prev_hash) ==
  IF i > Len(records) THEN Stop("True", 0, "none")
  ELSE LET c == E2_verify_chain_body(records[i], prev_hash)
       IN IF c.ret = "next"
            THEN E2_verify_chain_loop(records, i + 1, Get(records[i], "hash").str)
            ELSE Stop(c.ret, i, c.check)

\* E2.py verify_chain starting from a sentinel one character short
E2_verify_chain_short_sentinel(records) == E2_verify_chain_loop(records, 1, <<>>)

\* E2.py: verify_chain(records)
E2_verify_chain(records) == E2_verify_chain_loop(records, 1, Genesis)

\* db.py: the body of the for loop of verify_chain, for one record
db_verify_chain_body(rec, prev_hash) ==
  IF ~HasKey(rec, "hash") THEN Check("KeyError", "hash")
  ELSE LET rc == Pop(rec, "hash")
           stored == Get(rec, "hash")
           payload == json_dumps(rc)
           calc == Str(Digest(prev_hash, payload))
       IN IF calc # stored THEN Check("False", "hash")
           ELSE IF ~HasKey(rc, "prev_hash") THEN Check("KeyError", "link")
           ELSE IF Get(rc, "prev_hash") # Str(prev_hash) THEN Check("False", "link")
           ELSE Check("next", "none")

\* db.py loop with "return True" indented into the for loop
db_loop_returns_after_first(records, i, prev_hash) ==
  IF i > Len(records) THEN Stop("True", 0, "none")
  ELSE LET c == db_verify_chain_body(records[i], prev_hash)
       IN IF c.ret = "next" THEN Stop("True", 0, "none")
          ELSE Stop(c.ret, i, c.check)

\* db.py loop without line 61: prev_hash is never moved to the stored hash
RECURSIVE db_loop_keeps_prev_hash(_, _, _)
db_loop_keeps_prev_hash(records, i, prev_hash) ==
  IF i > Len(records) THEN Stop("True", 0, "none")
  ELSE LET c == db_verify_chain_body(records[i], prev_hash)
       IN IF c.ret = "next"
            THEN db_loop_keeps_prev_hash(records, i + 1, prev_hash)
            ELSE Stop(c.ret, i, c.check)

\* db.py: the for loop of verify_chain, at record i with the local prev_hash
RECURSIVE db_verify_chain_loop(_, _, _)
db_verify_chain_loop(records, i, prev_hash) ==
  IF i > Len(records) THEN Stop("True", 0, "none")
  ELSE LET c == db_verify_chain_body(records[i], prev_hash)
       IN IF c.ret = "next"
            THEN db_verify_chain_loop(records, i + 1, Get(records[i], "hash").str)
            ELSE Stop(c.ret, i, c.check)

\* db.py: verify_chain(records)
db_verify_chain(records) == db_verify_chain_loop(records, 1, Genesis)

(* ------------------- the input after verify_chain --------------------- *)
\* E1.py with "rc = rec" in place of the copy: the pop reaches the input
E1_alias_pop(rec) == [rec |-> Pop(rec, "hash"), rc |-> Pop(rec, "hash")]

\* E1.py lines 52-53: the input record and its copy after copy() and pop("hash")
E1_copy_pop(rec) == [rec |-> rec, rc |-> Pop(rec, "hash")]

\* E1.py: the input list as verify_chain leaves it: every record the loop
\* reached is what lines 52-53 left of it
E1_records_after(records) ==
  LET o == E1_verify_chain(records)
      reached == IF o.ret = "True" THEN Len(records) ELSE o.at
  IN [j \in 1..Len(records) |->
        IF j <= reached THEN E1_copy_pop(records[j]).rec ELSE records[j]]

\* E2.py lines 63-64: the input record and its copy after copy() and pop("hash")
E2_copy_pop(rec) == [rec |-> rec, rc |-> Pop(rec, "hash")]

\* E2.py: the input list as verify_chain leaves it: every record the loop
\* reached is what lines 63-64 left of it
E2_records_after(records) ==
  LET o == E2_verify_chain(records)
      reached == IF o.ret = "True" THEN Len(records) ELSE o.at
  IN [j \in 1..Len(records) |->
        IF j <= reached THEN E2_copy_pop(records[j]).rec ELSE records[j]]

\* db.py lines 53-54: the input record and its copy after copy() and pop("hash")
db_copy_pop(rec) == [rec |-> rec, rc |-> Pop(rec, "hash")]

\* db.py: the input list as verify_chain leaves it: every record the loop
\* reached is what lines 53-54 left of it
db_records_after(records) ==
  LET o == db_verify_chain(records)
      reached == IF o.ret = "True" THEN Len(records) ELSE o.at
  IN [j \in 1..Len(records) |->
        IF j <= reached THEN db_copy_pop(records[j]).rec ELSE records[j]]

\* E3.py lines 77-78: the input record and its copy after copy() and pop("hash")
E3_copy_pop(rec) == [rec |-> rec, rc |-> Pop(rec, "hash")]

\* E3.py: the input list as verify_chain leaves it: every record the loop
\* reached is what lines 77-78 left of it
E3_records_after(records) ==
  LET o == E3_verify_chain(records)
      reached == IF o.ret = "True" THEN Len(records) ELSE o.at
  IN [j \in 1..Len(records) |->
        IF j <= reached THEN E3_copy_pop(records[j]).rec ELSE records[j]]

\* the input list after verify_chain of script s
RecordsAfter(s, records) ==
  CASE s = "E1" -> E1_records_after(records)
    [] s = "E2" -> E2_records_after(records)
    [] s = "db" -> db_records_after(records)
    [] s = "E3" -> E3_records_after(records)

(* ------------------------------ Append --------------------------------- *)
\* the hash of the current last record, or the genesis sentinel
LedgerTailHash(records) ==
  IF records = <<>> THEN Genesis ELSE Get(records[Len(records)], "hash").str

\* Append(ledger_tail_hash, new_record_fields): sets prev_hash, then hash
AppendRecord(ledger_tail_hash, fields) ==
  LET linked == Put(fields, "prev_hash", Str(ledger_tail_hash))
  IN Put(linked, "hash", Str(Digest(ledger_tail_hash, json_dumps(linked))))

\* the ledger after Append-ing each field set of fs, in order, to records
RECURSIVE AppendAll(_, _)
AppendAll(records, fs) ==
  IF fs = <<>> THEN records
  ELSE AppendAll(Append(records, AppendRecord(LedgerTailHash(records), Head(fs))),
                 Tail(fs))

(* --------------------------- the dashboards ---------------------------- *)
Scripts == {"E1", "E2", "db", "E3"}

\* what the page shows for a walk that ended with o
Page(o) ==
  CASE o.ret = "True" -> "verified"
    [] o.ret = "False" -> "tampered"
    [] OTHER -> "exception"

NoWalk == Stop("none", 0, "none")
Shown(script, report, walk) == [script |-> script, report |-> report, walk |-> walk]
NoRun == Shown("none", "none", NoWalk)

\* E1.py: load, empty-ledger guard, verify_chain, trust check message
E1_run(ledger_records) ==
  IF Len(ledger_records) = 0 THEN Shown("E1", "nodata", NoWalk)
  ELSE LET valid_chain == E1_verify_chain(ledger_records)
       IN Shown("E1", Page(valid_chain), valid_chain)

\* E2.py: load, empty-ledger guard, verify_chain, integrity message
E2_run(ledger_records) ==
  IF Len(ledger_records) = 0 THEN Shown("E2", "nodata", NoWalk)
  ELSE LET chain_ok == E2_verify_chain(ledger_records)
       IN Shown("E2", Page(chain_ok), chain_ok)

\* db.py: load, empty-ledger guard, verify_chain, integrity message
db_run(ledger_records) ==
  IF Len(ledger_records) = 0 THEN Shown("db", "nodata", NoWalk)
  ELSE LET chain_ok == db_verify_chain(ledger_records)
       IN Shown("db", Page(chain_ok), chain_ok)

\* E3.py: load, verify_chain, integrity message (there is no empty guard)
E3_run(ledger_records) ==
  LET chain_ok == E3_verify_chain(ledger_records)
  IN Shown("E3", Page(chain_ok), chain_ok)

ScriptRun(s, ledger_records) ==
  CASE s = "E1" -> E1_run(ledger_records)
    [] s = "E2" -> E2_run(ledger_records)
    [] s = "db" -> db_run(ledger_records)
    [] s = "E3" -> E3_run(ledger_records)

\* what verify_chain of script s returns for records
Verify(s, records) ==
  CASE s = "E1" -> E1_verify_chain(records)
    [] s = "E2" -> E2_verify_chain(records)
    [] s = "db" -> db_verify_chain(records)
    [] s = "E3" -> E3_verify_chain(records)


(* ------------------------------- state --------------------------------- *)
VARIABLES
  ledger,   \* the persisted ledger file: the records, in file order
  tamper,   \* the edit made to the file behind the producer's back, if any
  shown,    \* the last dashboard run over the current file contents
  writers   \* each producer process: idle, or holding the tail hash it read

vars == <<ledger, tamper, shown, writers>>

\* the field sets the producer logs (fields other than prev_hash and hash)
ProducerFields ==
  { << <<"user_id", Str(<<1>>)>>,
       <<"top_shap_features", Map(<< <<"gaming_events", <<3>>>> >>)>> >>,
    << <<"top_shap_features",
         Map(<< <<"gaming_events", <<3>>>>, <<"searches", <<4>>>> >>)>>,
       <<"user_id", Str(<<2>>)>> >> }

\* a 64-character hex string that is the hash of nothing in the ledger
Junk == <<8>>

\* the hashes an editor of the file can write: the sentinel, a stray value,
\* and every hash stored in the file
HashChoices(records) ==
  {Genesis, Junk} \cup
  {Get(records[j], "hash").str :
     j \in {q \in 1..Len(records) : HasKey(records[q], "hash")}}

\* the hash the walk expects in front of position p of an Append-built ledger
ExpectedPrev(records, p) ==
  IF p = 1 THEN Genesis ELSE Get(records[p - 1], "hash").str

\* Python == on two loaded JSON values (dict equality ignores key order)
SameValue(v, w) ==
  /\ v.kind = w.kind
  /\ v.str = w.str
  /\ Len(v.map) = Len(w.map)
  /\ \A j \in 1..Len(v.map) :
       /\ HasKey(w.map, v.map[j][1])
       /\ Get(w.map, v.map[j][1]) = v.map[j][2]

\* the values an editor can write into field k
FieldChoices(records, k) ==
  IF k = "prev_hash" THEN {Str(h) : h \in HashChoices(records)}
  ELSE {Get(f, k) : f \in ProducerFields}

\* the fields of a record as the producer supplied them
FieldsOf(rec) == Pop(Pop(rec, "hash"), "prev_hash")

\* the producer processes that may call Append
Writers == {"w1", "w2"}
Idle == [pc |-> "idle", tail |-> Genesis, fields |-> <<>>]
Holding(tail, fields) == [pc |-> "read", tail |-> tail, fields |-> fields]

NoTamper == [kind |-> "none", pos |-> 0, key |-> "none"]
Tampered(kind, pos, key) == [kind |-> kind, pos |-> pos, key |-> key]

Init ==
  /\ ledger = <<>>
  /\ tamper = NoTamper
  /\ shown = NoRun
  /\ writers = [w \in Writers |-> Idle]

\* the producer logs one decision: Append against the current tail
AppendDecision(fields) ==
  /\ tamper.kind = "none"
  /\ Len(ledger) < MaxLen
  /\ ledger' = Append(ledger, AppendRecord(LedgerTailHash(ledger), fields))
  /\ shown' = NoRun
  /\ UNCHANGED <<tamper, writers>>

\* a dashboard script that opens the ledger file with mode "w": the file is
\* emptied before it is read
RunScript_opens_for_writing(s) ==
  /\ ledger' = <<>>
  /\ shown' = ScriptRun(s, <<>>)
  /\ UNCHANGED <<tamper, writers>>

\* a dashboard script runs from top to bottom over the file
RunScript(s) ==
  /\ shown' = ScriptRun(s, ledger)
  /\ UNCHANGED <<ledger, tamper, writers>>

\* record p gets a different value in field k, nothing else changes
MutateField(p, k, v) ==
  /\ tamper.kind = "none"
  /\ ~SameValue(Get(ledger[p], k), v)
  /\ ledger' = [ledger EXCEPT ![p] = Put(ledger[p], k, v)]
  /\ tamper' = Tampered("field", p, k)
  /\ shown' = NoRun
  /\ UNCHANGED writers

\* record p is removed from the file
DeleteRecord(p) ==
  /\ tamper.kind = "none"
  /\ ledger' = SubSeq(ledger, 1, p - 1) \o SubSeq(ledger, p + 1, Len(ledger))
  /\ tamper' = Tampered("delete", p, "none")
  /\ shown' = NoRun
  /\ UNCHANGED writers

\* records p and p+1 change places, their fields untouched
SwapAdjacent(p) ==
  /\ tamper.kind = "none"
  /\ ledger' = [ledger EXCEPT ![p] = ledger[p + 1], ![p + 1] = ledger[p]]
  /\ tamper' = Tampered("swap", p, "none")
  /\ shown' = NoRun
  /\ UNCHANGED writers

\* a record made by someone who can compute the digest: prev_hash holds
\* link, and hash is the digest over base
ForgedRecord(fields, link, base) ==
  LET linked == Put(fields, "prev_hash", Str(link))
  IN Put(linked, "hash", Str(Digest(base, json_dumps(linked))))

\* a forged record is put at position p, the original records untouched
InsertRecord(p, fields, link, base) ==
  /\ tamper.kind = "none"
  /\ Len(ledger) >= 1
  /\ ledger' = SubSeq(ledger, 1, p - 1)
                 \o <<ForgedRecord(fields, link, base)>>
                 \o SubSeq(ledger, p, Len(ledger))
  /\ tamper' = Tampered("insert", p,
                 IF link = ExpectedPrev(ledger, p) /\ base = link
                   THEN "chained" ELSE "unchained")
  /\ shown' = NoRun
  /\ UNCHANGED writers

\* the file is cut before position p and other records are written after the
\* cut: chained to the kept prefix as Append would, or linked to a stray hash
TruncateAppend(p, fs, chained) ==
  /\ tamper.kind = "none"
  /\ LET kept == SubSeq(ledger, 1, p - 1)
         new == IF chained THEN AppendAll(kept, fs)
                ELSE AppendAll(Append(kept, ForgedRecord(Head(fs), Junk, Junk)),
                               Tail(fs))
     IN /\ new # ledger
        /\ \E j \in p..Len(new) :
             IF j > Len(ledger) THEN TRUE ELSE new[j] # ledger[j]
        /\ ledger' = new
  /\ tamper' = Tampered("truncate", p, IF chained THEN "chained" ELSE "unchained")
  /\ shown' = NoRun
  /\ UNCHANGED writers

\* record p is re-linked: its prev_hash is set to link, which is not the hash
\* of its predecessor, its hash is recomputed over the real predecessor's
\* hash, and every later record is re-chained behind it
Relink(p, link) ==
  /\ tamper.kind = "none"
  /\ link # ExpectedPrev(ledger, p)
  /\ LET kept == SubSeq(ledger, 1, p - 1)
         spliced == ForgedRecord(FieldsOf(ledger[p]), link, ExpectedPrev(ledger, p))
         rest == [j \in 1..(Len(ledger) - p) |-> FieldsOf(ledger[p + j])]
     IN ledger' = AppendAll(Append(kept, spliced), rest)
  /\ tamper' = Tampered("relink", p, "prev_hash")
  /\ shown' = NoRun
  /\ UNCHANGED writers

\* record p loses key k; with rehash, its hash is recomputed over what is left
DropKey(p, k, rehash) ==
  /\ tamper.kind = "none"
  /\ k = "hash" => ~rehash
  /\ LET left == Pop(ledger[p], k)
     IN ledger' = [ledger EXCEPT ![p] =
          IF rehash
            THEN Put(left, "hash",
                     Str(Digest(ExpectedPrev(ledger, p), json_dumps(Pop(left, "hash")))))
            ELSE left]
  /\ tamper' = Tampered("drop", p, k)
  /\ shown' = NoRun
  /\ UNCHANGED writers

\* the same pairs in another order
Permute(d, pi) == [j \in 1..Len(d) |-> d[pi[j]]]
Reverse(d) == [j \in 1..Len(d) |-> d[Len(d) + 1 - j]]

\* orders in which the n keys of a line can be written: back to front, the
\* first key moved to the end, the first two keys exchanged, and as they are
KeyOrders(n) ==
  { [j \in 1..n |-> n + 1 - j],
    [j \in 1..n |-> IF j = n THEN 1 ELSE j + 1],
    [j \in 1..n |-> IF j = 1 /\ n >= 2 THEN 2 ELSE IF j = 2 THEN 1 ELSE j],
    [j \in 1..n |-> j] }

\* rec with its keys in the order pi and, with flip, the keys of every nested
\* mapping in reverse order; every key keeps its value
ReorderRecord(rec, pi, flip) ==
  LET top == Permute(rec, pi)
  IN [j \in 1..Len(top) |->
        IF flip /\ top[j][2].kind = "map"
          THEN <<top[j][1], Map(Reverse(top[j][2].map))>>
          ELSE top[j]]

\* the line of record p is rewritten with its keys in another order
ReorderKeys(p, pi, flip) ==
  /\ tamper.kind = "none"
  /\ ReorderRecord(ledger[p], pi, flip) # ledger[p]
  /\ ledger' = [ledger EXCEPT ![p] = ReorderRecord(ledger[p], pi, flip)]
  /\ tamper' = Tampered("reorder", p, "none")
  /\ shown' = NoRun
  /\ UNCHANGED writers

\* the positions 1..Len(ledger)+more of a file that has not been edited yet
Untouched(more) == IF tamper.kind = "none" THEN 1..(Len(ledger) + more) ELSE {}

Next ==
  \/ \E fields \in ProducerFields : AppendDecision(fields)
  \/ \E s \in Scripts : RunScript(s)
  \/ \E p \in Untouched(0), k \in {"user_id", "top_shap_features", "prev_hash"} :
       \E v \in FieldChoices(ledger, k) : MutateField(p, k, v)
  \/ \E p \in Untouched(0) : DeleteRecord(p)
  \/ \E p \in Untouched(-1) : SwapAdjacent(p)
  \/ \E p \in Untouched(1), fields \in ProducerFields :
       \E link \in HashChoices(ledger), base \in HashChoices(ledger) :
         InsertRecord(p, fields, link, base)
  \/ \E p \in Untouched(0), f \in ProducerFields, g \in ProducerFields :
       \E fs \in {<<f>>, <<f, g>>}, chained \in BOOLEAN :
         TruncateAppend(p, fs, chained)
  \/ \E p \in Untouched(0), link \in HashChoices(ledger) : Relink(p, link)
  \/ \E p \in Untouched(0), k \in {"hash", "prev_hash"}, rehash \in BOOLEAN :
       DropKey(p, k, rehash)
  \/ \E p \in Untouched(0), flip \in BOOLEAN :
       \E pi \in KeyOrders(Len(ledger[p])) : ReorderKeys(p, pi, flip)

Spec == Init /\ [][Next]_vars

(* ----------------------- unserialized producers ------------------------ *)
\* a producer process starts an Append: it reads the hash of the last record
ReadTail(w, fields) ==
  /\ writers[w].pc = "idle"
  /\ Len(ledger) + Cardinality({v \in Writers : writers[v].pc = "read"}) < MaxLen
  /\ writers' = [writers EXCEPT ![w] = Holding(LedgerTailHash(ledger), fields)]
  /\ UNCHANGED <<ledger, tamper, shown>>

\* the process finishes its Append with the tail hash it read, and the record
\* is written at the end of the file; the first record written over a tail
\* hash that is no longer the tail is noted as the fork
Persist(w) ==
  /\ writers[w].pc = "read"
  /\ ledger' = Append(ledger, AppendRecord(writers[w].tail, writers[w].fields))
  /\ writers' = [writers EXCEPT ![w] = Idle]
  /\ tamper' = IF tamper.kind = "none" /\ writers[w].tail # LedgerTailHash(ledger)
                 THEN Tampered("fork", Len(ledger) + 1, "stale")
                 ELSE tamper
  /\ shown' = NoRun

NextWriters ==
  \/ \E w \in Writers, fields \in ProducerFields : ReadTail(w, fields)
  \/ \E w \in Writers : Persist(w)
  \/ \E s \in Scripts : RunScript(s)

\* the producers without a lock around Append
SpecWriters == Init /\ [][NextWriters]_vars


(* ------------------------ reading a stored record ---------------------- *)
\* rec.get(k): the value under k, or Missing
Missing == [kind |-> "missing", str |-> <<>>, map |-> <<>>]
Field(rec, k) == IF HasKey(rec, k) THEN Get(rec, k) ELSE Missing

\* the stored hash of the record in front of position i, or the sentinel
StoredPrev(records, i) ==
  IF i = 1 THEN Str(Genesis) ELSE Field(records[i - 1], "hash")

\* the digest of record i over the text prev and its own payload
Rehash(records, i, prev) == Str(Digest(prev, json_dumps(Pop(records[i], "hash"))))

\* the two conditions of the walk at record i, with expected_prev the stored
\* hash of the record before it
WalkAccepts(records, i) ==
  LET expected_prev == StoredPrev(records, i)
  IN /\ expected_prev.kind = "str"
     /\ Field(records[i], "hash") = Rehash(records, i, expected_prev.str)
     /\ Field(records[i], "prev_hash") = expected_prev

\* ledger invariants 1-3 of the data model
LedgerInvariants(records) ==
  /\ \A i \in 2..Len(records) :
       /\ Field(records[i], "prev_hash").kind = "str"
       /\ Field(records[i], "prev_hash") = Field(records[i - 1], "hash")
  /\ \A i \in 1..Len(records) :
       /\ Field(records[i], "prev_hash").kind = "str"
       /\ Field(records[i], "hash") =
            Rehash(records, i, Field(records[i], "prev_hash").str)
  /\ Field(records[1], "prev_hash") = Str(Genesis)

Ran == shown.script # "none"

(* ------------------------------- claims -------------------------------- *)
\* C1: for a non-empty ledger, verify_chain of E1.py, E2.py and db.py returns
\* True exactly when every record passes both walk conditions (its hash is
\* the digest of the stored hash before it and its own payload, and its
\* prev_hash is that stored hash), which is exactly when ledger invariants
\* 1-3 hold.
C1_ValidIffChainHolds ==
  (shown.script \in {"E1", "E2", "db"} /\ Len(ledger) >= 1) =>
    /\ (shown.walk.ret = "True") <=> (\A i \in 1..Len(ledger) : WalkAccepts(ledger, i))
    /\ (shown.walk.ret = "True") <=> LedgerInvariants(ledger)

\* C1 witness: E1.py walked a ledger whose second record has the right hash
\* but the wrong prev_hash, and returned False on the link comparison
C1_Witness ==
  /\ shown.script = "E1"
  /\ shown.walk = Stop("False", 2, "link")

\* C2: a ledger built only by Append calls, one or more, is reported VALID by
\* verify_chain of every script.
C2_AppendBuiltIsValid ==
  (Ran /\ tamper.kind = "none" /\ Len(ledger) >= 1) => shown.walk.ret = "True"

\* C2 witness: E2.py verified an Append-built ledger of two or more records
C2_Witness ==
  /\ shown.script = "E2"
  /\ tamper.kind = "none"
  /\ Len(ledger) >= 2
  /\ shown.report = "verified"

\* C3: after one field other than hash of record p of an Append-built ledger
\* is changed to a different value, verify_chain returns False and the walk
\* stops at a position >= p.
C3_FieldMutationDetected ==
  (Ran /\ tamper.kind = "field") =>
    /\ shown.walk.ret = "False"
    /\ shown.walk.at >= tamper.pos

\* C3 witness: E3.py walked a ledger whose second record had its prev_hash
\* changed, and returned False there
C3_Witness ==
  /\ shown.script = "E3"
  /\ tamper = Tampered("field", 2, "prev_hash")
  /\ shown.walk.ret = "False"
  /\ shown.walk.at = 2


\* C4 as stated: after record p of an Append-built ledger is removed, the
\* last record included, verify_chain over the records that remain returns
\* False and the walk stops at position p.
C4_AnyDeletionDetected ==
  (Ran /\ tamper.kind = "delete" /\ Len(ledger) >= 1) =>
    /\ shown.walk.ret = "False"
    /\ shown.walk.at = tamper.pos

\* C4 amended: after record p is removed, verify_chain returns False at
\* position p when p had a successor; when p was the last record and records
\* remain, verify_chain returns True.
C4_DeletionBeforeTailDetected ==
  (Ran /\ tamper.kind = "delete" /\ Len(ledger) >= 1) =>
    IF tamper.pos <= Len(ledger)
      THEN shown.walk = Stop("False", tamper.pos, "hash")
      ELSE shown.walk.ret = "True"

\* C4 witness: E2.py walked a ledger whose first record was removed and
\* stopped at the successor, now first
C4_Witness ==
  /\ shown.script = "E2"
  /\ tamper = Tampered("delete", 1, "none")
  /\ Len(ledger) >= 1
  /\ shown.walk.ret = "False"
  /\ shown.walk.at = 1

\* C5: after records p and p+1 of an Append-built ledger change places,
\* verify_chain returns False and the walk stops at position p.
C5_SwapDetectedAtFirst ==
  (Ran /\ tamper.kind = "swap") =>
    /\ shown.walk.ret = "False"
    /\ shown.walk.at = tamper.pos

\* C5 witness: E1.py walked a ledger whose second and third records were
\* swapped and stopped at the second
C5_Witness ==
  /\ shown.script = "E1"
  /\ tamper = Tampered("swap", 2, "none")
  /\ shown.walk.ret = "False"
  /\ shown.walk.at = 2

\* some record has the hash of its real predecessor's hash and its own
\* payload, and a stored prev_hash that is not its real predecessor's hash
HasRelinkedRecord(records) ==
  \E i \in 1..Len(records) :
    LET real == StoredPrev(records, i)
    IN /\ real.kind = "str"
       /\ HasKey(records[i], "prev_hash")
       /\ Field(records[i], "hash") = Rehash(records, i, real.str)
       /\ Get(records[i], "prev_hash") # real

\* C6: every script's verify_chain returns False for a ledger that holds a
\* record whose hash is right for its real predecessor but whose stored
\* prev_hash is not the real predecessor's hash.
C6_LinkCheckedByAll ==
  (Ran /\ Len(ledger) >= 1 /\ HasRelinkedRecord(ledger)) => shown.walk.ret = "False"

\* C7: a False result tells the position of the first offending record and
\* the failed check: no other input for which the same verify_chain returns
\* the same value stops at another record or on another check.
C7_ResultIdentifiesFailure ==
  (Ran /\ shown.walk.ret = "False") =>
    \A k \in 1..Len(ledger) :
      LET other == Verify(shown.script, SubSeq(ledger, k, Len(ledger)))
      IN other.ret = shown.walk.ret =>
           /\ other.at = shown.walk.at
           /\ other.check = shown.walk.check

\* C8: no script shows a verified or a tampered message for a ledger of zero
\* records.
C8_EmptyIsNoData ==
  shown.report \in {"verified", "tampered"} => Len(ledger) >= 1

\* C9 as stated: after a record is inserted at any position of an
\* Append-built ledger, or the ledger is cut and other records are written in
\* place of the tail, verify_chain returns False (stated for the scripts that
\* make both comparisons: E1.py, E2.py, db.py).
C9_InsertAndTruncateDetected ==
  (shown.script \in {"E1", "E2", "db"} /\ tamper.kind \in {"insert", "truncate"}) =>
    shown.walk.ret = "False"

\* C9 amended: a record inserted in front of an original record makes
\* verify_chain return False; records written at the end, after the last
\* record or after a cut, and chained to what is kept as Append chains them,
\* make verify_chain return True.
C9_InsertBeforeEndDetected ==
  /\ (Ran /\ tamper.kind = "insert" /\ tamper.pos < Len(ledger)) =>
       shown.walk.ret = "False"
  /\ (Ran /\ tamper.kind \in {"insert", "truncate"} /\ tamper.key = "chained"
          /\ (tamper.kind = "insert" => tamper.pos = Len(ledger))) =>
       shown.walk.ret = "True"

\* C9 witness: db.py walked a ledger with a correctly chained record inserted
\* in front of its second record and returned False at the record behind it
C9_Witness ==
  /\ shown.script = "db"
  /\ tamper = Tampered("insert", 2, "chained")
  /\ shown.walk.ret = "False"
  /\ shown.walk.at = 3

\* C10: verify_chain ends with True or False for every stored sequence, also
\* when a record has no hash or no prev_hash key; it never raises.
C10_NeverRaises ==
  Ran => shown.walk.ret # "KeyError"


\* C11: the ledger is append-only. Every step of the producer or of a
\* dashboard (a step that is not an edit of the file behind the producer's
\* back) either leaves the ledger as it is, or makes it one record longer with
\* every earlier record at its position, all fields unchanged.
C11_AppendOnly ==
  [][tamper' = tamper =>
       \/ ledger' = ledger
       \/ /\ Len(ledger') = Len(ledger) + 1
          /\ SubSeq(ledger', 1, Len(ledger)) = ledger]_vars

\* C11 witness: two Appends have been made and the file was not edited
C11_Witness ==
  /\ tamper.kind = "none"
  /\ Len(ledger) >= 2
  /\ Get(ledger[2], "prev_hash") = Get(ledger[1], "hash")

\* C12: when an Append writes its record over a tail hash that was read
\* before another record was persisted, verify_chain of every script returns
\* False and the walk stops at that record, the second of the two; as long as
\* every Append has written over the tail hash of the moment, verify_chain
\* returns True.
C12_StaleTailForks ==
  /\ (Ran /\ tamper.kind = "fork") => shown.walk = Stop("False", tamper.pos, "hash")
  /\ (Ran /\ tamper.kind = "none" /\ Len(ledger) >= 1) => shown.walk.ret = "True"

\* C12 witness: two processes read the sentinel as tail, both records were
\* persisted, and db.py stopped with False at the second
C12_Witness ==
  /\ shown.script = "db"
  /\ tamper = Tampered("fork", 2, "stale")
  /\ Get(ledger[1], "prev_hash") = Str(Genesis)
  /\ Get(ledger[2], "prev_hash") = Str(Genesis)
  /\ shown.walk.ret = "False"
  /\ shown.walk.at = 2


\* rec with its keys back to front and, with flip, the keys of its nested
\* mappings back to front too
KeysReversed(rec, flip) ==
  ReorderRecord(rec, [j \in 1..Len(rec) |-> Len(rec) + 1 - j], flip)

\* C13: the serialized payload of a record does not depend on the order of
\* its keys or of the keys of top_shap_features, so verify_chain gives the
\* same result on a ledger and on the ledger with the keys of its records
\* re-ordered; an Append-built ledger with the keys of a record re-ordered is
\* still VALID.
C13_KeyOrderIrrelevant ==
  /\ \A p \in 1..Len(ledger), flip \in BOOLEAN :
       json_dumps(Pop(KeysReversed(ledger[p], flip), "hash"))
         = json_dumps(Pop(ledger[p], "hash"))
  /\ (Ran /\ shown.walk # NoWalk) =>
       Verify(shown.script, [p \in 1..Len(ledger) |-> KeysReversed(ledger[p], TRUE)])
         = shown.walk
  /\ (Ran /\ tamper.kind = "reorder") => shown.walk.ret = "True"

\* C13 witness: E1.py verified a two-record ledger whose second line was
\* rewritten with hash as its first key
C13_Witness ==
  /\ shown.script = "E1"
  /\ tamper = Tampered("reorder", 2, "none")
  /\ ledger[2][1][1] = "hash"
  /\ shown.walk.ret = "True"


\* C14: verify_chain is read-only. After the call, whatever it returned, the
\* input sequence has the same records in the same order, each with the
\* fields and values it had, hash included; a second call on the same
\* sequence ends as the first did.
C14_VerifyReadOnly ==
  (Ran /\ shown.walk # NoWalk) =>
    LET after == RecordsAfter(shown.script, ledger)
    IN /\ after = ledger
       /\ Verify(shown.script, after) = shown.walk

\* C14 witness: E3.py walked two records before it returned False, and both
\* still have their hash
C14_Witness ==
  /\ shown.script = "E3"
  /\ shown.walk.ret = "False"
  /\ shown.walk.at = 2
  /\ HasKey(ledger[1], "hash")
  /\ HasKey(ledger[2], "hash")

\* C15: acceptance is prefix-closed. When verify_chain returns True on the
\* ledger it returns True on every prefix of it; when it returns False on a
\* prefix, it returns False on the ledger, whatever was added behind.
C15_PrefixClosed ==
  Ran =>
    \A k \in 0..Len(ledger) :
      LET prefix == Verify(shown.script, SubSeq(ledger, 1, k))
      IN /\ shown.walk.ret = "True" => prefix.ret = "True"
         /\ (prefix.ret = "False" /\ shown.walk # NoWalk) => shown.walk.ret = "False"

\* C15 witness: E2.py returned False at the first record of a ledger that has
\* records behind it
C15_Witness ==
  /\ shown.script = "E2"
  /\ shown.walk.ret = "False"
  /\ shown.walk.at = 1
  /\ Len(ledger) >= 2

====
